---- MODULE Spec2Model ----
(***************************************************************************)
(* Salted-hash enrollment / verification pipeline of the biometric demo:   *)
(* BiometricStorage (in-memory Map variant and localStorage variant),      *)
(* HashGenerator.compareHashes, and the EnrollmentSimulation /             *)
(* VerificationSimulation flows with their WebAuthnHandler collaborator.   *)
(*                                                                         *)
(* JavaScript strings are sequences of UTF-16 code units (naturals), so    *)
(* that key construction (`biometric-user-${id}`, `${id}_log`), btoa's     *)
(* Latin-1 restriction and charCodeAt-based comparison are computed, not   *)
(* assumed.  The code unit -1 marks the JavaScript value undefined.        *)
(***************************************************************************)
EXTENDS Integers, Sequences, FiniteSets, TLC

VARIABLES
    variant,   \* which BiometricStorage class is loaded: "memory" | "local"
    mem,       \* this.storage (a Map) of every BiometricStorage instance
    ls,        \* window.localStorage, shared by every instance
    now,       \* the reading of Date.now()
    ret,       \* what the last call returned (or that it threw)
    creds,     \* this.credentials of each simulation's WebAuthnHandler
    device,    \* the credentials held by the platform authenticator
    camera,    \* stream / isCapturing of each simulation's FaceDetection
    enroll,    \* the EnrollmentSimulation object and its current run
    verify,    \* the VerificationSimulation object and its current run
    runs       \* number of runs started

storageVars == <<variant, mem, ls, now, ret>>
flowVars == <<creds, device, camera, enroll, verify, runs>>
vars == <<variant, mem, ls, now, ret, creds, device, camera, enroll, verify, runs>>

---------------------------------------------------------------------------
(* Bounds of the model *)

MaxClock == 3
MaxRuns == 3

---------------------------------------------------------------------------
(* Strings *)

\* "biometric-user-"
KeyPrefix == <<98, 105, 111, 109, 101, 116, 114, 105, 99, 45, 117, 115, 101, 114, 45>>
\* "_log"
LogSuffix == <<95, 108, 111, 103>>

Undefined == <<-1>>
NoTime == 0 - 1
NoId == <<-1, -1>>
NoMetadata == [missing |-> TRUE]
Null == [null |-> TRUE]

\* "a", "a_log", "biometric-user-a", and the one-character string U+03A9
UserA == <<97>>
UserALog == UserA \o LogSuffix
UserPrefA == KeyPrefix \o UserA
UserOmega == <<937>>
UserIds == {UserA, UserALog, UserPrefA, UserOmega}

\* "ab", "cd" and the empty string
HashAB == <<97, 98>>
HashCD == <<99, 100>>
Empty == << >>
\* "01", "ff"
Salt01 == <<48, 49>>
SaltFF == <<102, 102>>

\* JavaScript truthiness of a string-valued expression
Truthy(s) == s # Empty /\ s # Undefined

StartsWith(s, p) == Len(s) >= Len(p) /\ SubSeq(s, 1, Len(p)) = p
EndsWith(s, p) == Len(s) >= Len(p) /\ SubSeq(s, Len(s) - Len(p) + 1, Len(s)) = p

\* btoa accepts only code units 0..255
Latin1(s) == \A i \in 1..Len(s) : s[i] >= 0 /\ s[i] <= 255

---------------------------------------------------------------------------
(* Maps: a finite function from keys to values *)

EmptyMap == [k \in {} |-> Null]
Has(m, k) == k \in DOMAIN m
MapSet(m, k, v) == [x \in (DOMAIN m) \cup {k} |-> IF x = k THEN v ELSE m[x]]
MapDelete(m, k) == [x \in (DOMAIN m) \ {k} |-> m[x]]

---------------------------------------------------------------------------
(* Bit operations of compareHashes *)

RECURSIVE BitXor(_, _)
BitXor(a, b) ==
    IF a = 0 THEN b
    ELSE IF b = 0 THEN a
    ELSE (((a % 2) + (b % 2)) % 2) + 2 * BitXor(a \div 2, b \div 2)

RECURSIVE BitOr(_, _)
BitOr(a, b) ==
    IF a = 0 THEN b
    ELSE IF b = 0 THEN a
    ELSE (IF (a % 2) = 1 \/ (b % 2) = 1 THEN 1 ELSE 0) + 2 * BitOr(a \div 2, b \div 2)

\* result |= hash1.charCodeAt(i) ^ hash2.charCodeAt(i) for i in lo..hi,
\* the accumulation grouped by halves (| is associative)
RECURSIVE CompareLoop(_, _, _, _)
CompareLoop(hash1, hash2, lo, hi) ==
    IF lo > hi THEN 0
    ELSE IF lo = hi THEN BitXor(hash1[lo], hash2[lo])
    ELSE LET mid == (lo + hi) \div 2
         IN BitOr(CompareLoop(hash1, hash2, lo, mid),
                  CompareLoop(hash1, hash2, mid + 1, hi))

\* A comparison that looks at the first code unit only
CompareFirstUnit(hash1, hash2) ==
    IF ~Truthy(hash1) \/ ~Truthy(hash2) THEN FALSE
    ELSE IF Len(hash1) # Len(hash2) THEN FALSE
    ELSE BitXor(hash1[1], hash2[1]) = 0

\* BiometricStorage.compareHashes (both variants) and HashGenerator.compareHashes
CompareHashes(hash1, hash2) ==
    IF ~Truthy(hash1) \/ ~Truthy(hash2) THEN FALSE
    ELSE IF Len(hash1) # Len(hash2) THEN FALSE
    ELSE CompareLoop(hash1, hash2, 1, Len(hash1)) = 0

---------------------------------------------------------------------------
(* Records and results *)

\* `x || default` on a name-valued field
Falsy(x) == x \in {"undefined", ""}

\* The object literal of storeEnrollment; confidence is in hundredths
EnrollmentRecord(userId, biometricData, id, t) ==
    [userId |-> userId,
     enrollmentId |-> id,
     biometricType |-> IF Falsy(biometricData.type) THEN "unknown" ELSE biometricData.type,
     hash |-> biometricData.hash,
     salt |-> biometricData.salt,
     algorithm |-> IF Falsy(biometricData.algorithm) THEN "SHA-256"
                   ELSE biometricData.algorithm,
     metadata |-> [enrollmentDate |-> t,
                   deviceInfo |-> IF Falsy(biometricData.deviceInfo) THEN "getDeviceInfo"
                                  ELSE biometricData.deviceInfo,
                   templateSize |-> IF Falsy(biometricData.templateSize) THEN "unknown"
                                    ELSE biometricData.templateSize,
                   confidence |-> IF biometricData.confidence <= 0 THEN 100
                                  ELSE biometricData.confidence,
                   lastUpdated |-> NoTime],
     timestamp |-> t]

\* The `data` object retrieveEnrollment builds from a parsed record
RecordData(record) ==
    [userId |-> record.userId,
     enrollmentId |-> record.enrollmentId,
     hash |-> record.hash,
     salt |-> record.salt,
     algorithm |-> record.algorithm,
     biometricType |-> record.biometricType,
     metadata |-> record.metadata]

\* The same object built from a parsed value that has none of the fields
\* (an array): every property reads undefined
UndefinedData ==
    [userId |-> Undefined,
     enrollmentId |-> NoId,
     hash |-> Undefined,
     salt |-> Undefined,
     algorithm |-> "undefined",
     biometricType |-> "undefined",
     metadata |-> NoMetadata]

\* One entry of the verification log
LogEntry(userId, success, t) ==
    [userId |-> userId, timestamp |-> t, success |-> success, date |-> t]

NoResult ==
    [threw |-> FALSE, success |-> FALSE, verified |-> FALSE, deleted |-> FALSE,
     error |-> "none", data |-> Null, enrollmentId |-> NoId, timestamp |-> NoTime,
     list |-> << >>]

Returns(m, r) == [m |-> m, r |-> r]
Throws(m, err) == [m |-> m, r |-> [NoResult EXCEPT !.threw = TRUE, !.error = err]]

LogCap == 100

\* The cap written with slice(0, 100): keeps the oldest entries
PushKeepingOldest(log, entry) ==
    LET pushed == Append(log, entry)
    IN IF Len(pushed) > LogCap THEN SubSeq(pushed, 1, LogCap) ELSE pushed

\* log.push(entry); if (log.length > 100) log = log.slice(-100)
PushCapped(log, entry) ==
    LET pushed == Append(log, entry)
    IN IF Len(pushed) > LogCap
       THEN SubSeq(pushed, Len(pushed) - LogCap + 1, Len(pushed))
       ELSE pushed

---------------------------------------------------------------------------
(* BiometricStorage, in-memory variant: this.storage is a Map whose values  *)
(* are encrypted records {encrypted, iv, tag} under the key userId and      *)
(* arrays of log entries under the key `${userId}_log`.                     *)

\* JSON.stringify(record) leaves code units above 255 unescaped and drops
\* undefined properties; btoa throws InvalidCharacterError on such a unit
Encodable(record) ==
    /\ record.userId = Undefined \/ Latin1(record.userId)
    /\ record.hash = Undefined \/ Latin1(record.hash)
    /\ record.salt = Undefined \/ Latin1(record.salt)

\* encrypt(data): {encrypted: btoa(JSON.stringify(data)), iv, tag}
Encrypt(record) == [t |-> "enc", v |-> record]

\* decrypt(encryptedData): JSON.parse(atob(encryptedData.encrypted)), or null
\* when atob throws (an array has no `encrypted`, and atob("undefined") throws)
Decrypt(value) == IF value.t = "enc" THEN value.v ELSE Null

MemStoreEnrollment(m, userId, biometricData, id, t) ==
    LET enrollmentRecord == EnrollmentRecord(userId, biometricData, id, t)
    IN IF ~Encodable(enrollmentRecord)
       THEN Throws(m, "InvalidCharacterError")
       ELSE Returns(MapSet(m, userId, Encrypt(enrollmentRecord)),
                    [NoResult EXCEPT !.success = TRUE, !.enrollmentId = id,
                                     !.timestamp = t])

MemRetrieveEnrollment(m, userId) ==
    IF ~Has(m, userId)
    THEN Returns(m, [NoResult EXCEPT !.error = "User not found"])
    ELSE LET record == Decrypt(m[userId])
         IN IF record = Null
            THEN Throws(m, "TypeError")
            ELSE Returns(m, [NoResult EXCEPT !.success = TRUE,
                                             !.data = RecordData(record)])

MemLogVerificationAttempt(m, userId, success, t) ==
    LET logKey == userId \o LogSuffix
    IN IF Has(m, logKey) /\ m[logKey].t # "arr"
       THEN Throws(m, "TypeError")
       ELSE LET log == IF Has(m, logKey) THEN m[logKey].v ELSE << >>
            IN Returns(MapSet(m, logKey,
                              [t |-> "arr",
                               v |-> PushCapped(log, LogEntry(userId, success, t))]),
                       NoResult)

MemVerifyBiometric(m, userId, providedHash, t) ==
    LET enrollmentResult == MemRetrieveEnrollment(m, userId).r
    IN IF enrollmentResult.threw
       THEN Throws(m, enrollmentResult.error)
       ELSE IF ~enrollmentResult.success
       THEN Returns(m, [NoResult EXCEPT !.error = enrollmentResult.error])
       ELSE LET match == CompareHashes(enrollmentResult.data.hash, providedHash)
                logged == MemLogVerificationAttempt(m, userId, match, t)
            IN IF logged.r.threw
               THEN logged
               ELSE Returns(logged.m,
                            [NoResult EXCEPT !.success = TRUE, !.verified = match,
                                             !.timestamp = t])

\* A merge that assigns every field the caller passed, empty or not
ApplyGivenUpdates(record, updates, t) ==
    [record EXCEPT
        !.hash = IF updates.hash # Undefined THEN updates.hash ELSE @,
        !.salt = IF updates.salt # Undefined THEN updates.salt ELSE @,
        !.metadata = [@ EXCEPT
            !.confidence = IF updates.confidence > 0 THEN updates.confidence ELSE @,
            !.lastUpdated = t],
        !.timestamp = t]

\* The three `if (updates.x) record.x = updates.x` lines and the two stamps
ApplyUpdates(record, updates, t) ==
    [record EXCEPT
        !.hash = IF Truthy(updates.hash) THEN updates.hash ELSE @,
        !.salt = IF Truthy(updates.salt) THEN updates.salt ELSE @,
        !.metadata = [@ EXCEPT
            !.confidence = IF updates.confidence > 0 THEN updates.confidence ELSE @,
            !.lastUpdated = t],
        !.timestamp = t]

MemUpdateEnrollment(m, userId, updates, t) ==
    LET enrollmentResult == MemRetrieveEnrollment(m, userId).r
    IN IF enrollmentResult.threw
       THEN Throws(m, enrollmentResult.error)
       ELSE IF ~enrollmentResult.success
       THEN Returns(m, [NoResult EXCEPT !.error = "User not found"])
       ELSE LET record == ApplyUpdates(Decrypt(m[userId]), updates, t)
            IN IF ~Encodable(record)
               THEN Throws(m, "InvalidCharacterError")
               ELSE Returns(MapSet(m, userId, Encrypt(record)),
                            [NoResult EXCEPT !.success = TRUE, !.timestamp = t])

MemDeleteEnrollment(m, userId) ==
    LET existed == Has(m, userId)
    IN Returns(MapDelete(m, userId),
               [NoResult EXCEPT !.success = existed, !.deleted = existed])

MemGetVerificationHistory(m, userId) ==
    LET logKey == userId \o LogSuffix
    IN IF Has(m, logKey) THEN m[logKey] ELSE [t |-> "arr", v |-> << >>]

MemClearAll(m) == Returns(EmptyMap, [NoResult EXCEPT !.success = TRUE])

---------------------------------------------------------------------------
(* BiometricStorage, localStorage variant: every value is the JSON text of  *)
(* a record (under `biometric-user-${userId}`) or of an array of log        *)
(* entries (under `${userId}_log`).                                         *)

\* JSON.stringify of an object and of an array
JsonOfObject(record) == [t |-> "jsonobj", v |-> record]
JsonOfArray(log) == [t |-> "jsonarr", v |-> log]

LsStoreEnrollment(m, userId, biometricData, id, t) ==
    LET enrollmentRecord == EnrollmentRecord(userId, biometricData, id, t)
        key == KeyPrefix \o userId
    IN Returns(MapSet(m, key, JsonOfObject(enrollmentRecord)),
               [NoResult EXCEPT !.success = TRUE, !.enrollmentId = id, !.timestamp = t])

LsRetrieveEnrollment(m, userId) ==
    LET key == KeyPrefix \o userId
    IN IF ~Has(m, key)
       THEN Returns(m, [NoResult EXCEPT !.error = "User not found"])
       ELSE IF m[key].t = "jsonobj"
       THEN Returns(m, [NoResult EXCEPT !.success = TRUE, !.data = RecordData(m[key].v)])
       ELSE Returns(m, [NoResult EXCEPT !.success = TRUE, !.data = UndefinedData])

LsLogVerificationAttempt(m, userId, success, t) ==
    LET logKey == userId \o LogSuffix
    IN IF Has(m, logKey) /\ m[logKey].t # "jsonarr"
       THEN Throws(m, "TypeError")
       ELSE LET log == IF Has(m, logKey) THEN m[logKey].v ELSE << >>
            IN Returns(MapSet(m, logKey,
                              JsonOfArray(PushCapped(log, LogEntry(userId, success, t)))),
                       NoResult)

LsVerifyBiometric(m, userId, providedHash, t) ==
    LET enrollmentResult == LsRetrieveEnrollment(m, userId).r
    IN IF ~enrollmentResult.success
       THEN Returns(m, [NoResult EXCEPT !.error = enrollmentResult.error])
       ELSE LET match == CompareHashes(enrollmentResult.data.hash, providedHash)
                logged == LsLogVerificationAttempt(m, userId, match, t)
            IN IF logged.r.threw
               THEN logged
               ELSE Returns(logged.m,
                            [NoResult EXCEPT !.success = TRUE, !.verified = match,
                                             !.timestamp = t])

LsUpdateEnrollment(m, userId, updates, t) ==
    LET enrollment == LsRetrieveEnrollment(m, userId).r
    IN IF ~enrollment.success
       THEN Returns(m, [NoResult EXCEPT !.error = "User not found"])
       ELSE IF enrollment.data.metadata = NoMetadata
       THEN Throws(m, "TypeError")
       ELSE LET data == enrollment.data
                record == ApplyUpdates(
                    [userId |-> data.userId, enrollmentId |-> data.enrollmentId,
                     biometricType |-> data.biometricType, hash |-> data.hash,
                     salt |-> data.salt, algorithm |-> data.algorithm,
                     metadata |-> data.metadata, timestamp |-> NoTime],
                    updates, t)
            IN Returns(MapSet(m, KeyPrefix \o userId, JsonOfObject(record)),
                       [NoResult EXCEPT !.success = TRUE, !.timestamp = t])

LsDeleteEnrollment(m, userId) ==
    LET key == KeyPrefix \o userId
        existed == Has(m, key)
    IN Returns(MapDelete(MapDelete(m, key), userId \o LogSuffix),
               [NoResult EXCEPT !.success = existed, !.deleted = existed])

LsGetVerificationHistory(m, userId) ==
    LET logKey == userId \o LogSuffix
    IN IF Has(m, logKey) THEN m[logKey] ELSE [t |-> "jsonarr", v |-> << >>]

LsClearAll(m) ==
    LET keys == {k \in DOMAIN m : StartsWith(k, KeyPrefix) \/ EndsWith(k, LogSuffix)}
    IN Returns([k \in (DOMAIN m) \ keys |-> m[k]], [NoResult EXCEPT !.success = TRUE])

---------------------------------------------------------------------------
(* The class that is loaded decides which of the two a call runs *)

StoreEnrollment(v, m, userId, biometricData, id, t) ==
    IF v = "memory" THEN MemStoreEnrollment(m, userId, biometricData, id, t)
    ELSE LsStoreEnrollment(m, userId, biometricData, id, t)

RetrieveEnrollment(v, m, userId) ==
    IF v = "memory" THEN MemRetrieveEnrollment(m, userId)
    ELSE LsRetrieveEnrollment(m, userId)

VerifyBiometric(v, m, userId, providedHash, t) ==
    IF v = "memory" THEN MemVerifyBiometric(m, userId, providedHash, t)
    ELSE LsVerifyBiometric(m, userId, providedHash, t)

UpdateEnrollment(v, m, userId, updates, t) ==
    IF v = "memory" THEN MemUpdateEnrollment(m, userId, updates, t)
    ELSE LsUpdateEnrollment(m, userId, updates, t)

DeleteEnrollment(v, m, userId) ==
    IF v = "memory" THEN MemDeleteEnrollment(m, userId)
    ELSE LsDeleteEnrollment(m, userId)

\* What getVerificationHistory returns: the array under the log key ([] when
\* there is none), or whatever other value is stored under that key
GetVerificationHistory(v, m, userId) ==
    LET value == IF v = "memory" THEN MemGetVerificationHistory(m, userId)
                 ELSE LsGetVerificationHistory(m, userId)
    IN IF value.t \in {"arr", "jsonarr"}
       THEN [isArray |-> TRUE, entries |-> value.v]
       ELSE [isArray |-> FALSE, entries |-> << >>]

ClearAll(v, m) == IF v = "memory" THEN MemClearAll(m) ELSE LsClearAll(m)

---------------------------------------------------------------------------
(* getAllEnrollments *)

Summary(record) ==
    [userId |-> record.userId,
     enrollmentId |-> record.enrollmentId,
     biometricType |-> record.biometricType,
     enrollmentDate |-> record.metadata.enrollmentDate,
     confidence |-> record.metadata.confidence]

RECURSIVE SummariesOf(_, _)
SummariesOf(m, keys) ==
    IF keys = {} THEN << >>
    ELSE LET k == CHOOSE x \in keys : TRUE
         IN <<Summary(m[k].v)>> \o SummariesOf(m, keys \ {k})

\* for (const [userId, encryptedRecord] of this.storage): decrypt gives null
\* for a log array, and null.userId throws
MemGetAllEnrollments(m) ==
    IF \E k \in DOMAIN m : Decrypt(m[k]) = Null
    THEN Throws(m, "TypeError")
    ELSE Returns(m, [NoResult EXCEPT !.success = TRUE,
                                     !.list = SummariesOf(m, DOMAIN m)])

\* Keys with the prefix only; a parsed array throws inside the try and is skipped
LsGetAllEnrollments(m) ==
    Returns(m, [NoResult EXCEPT
        !.success = TRUE,
        !.list = SummariesOf(m, {k \in DOMAIN m :
                                    StartsWith(k, KeyPrefix) /\ m[k].t = "jsonobj"})])

GetAllEnrollments(v, m) ==
    IF v = "memory" THEN MemGetAllEnrollments(m) ELSE LsGetAllEnrollments(m)

---------------------------------------------------------------------------
(* SaltGenerator and HashGenerator *)

HexDigit(n) == IF n < 10 THEN 48 + n ELSE 87 + n

\* byte.toString(16).padStart(2, '0')
ByteToHex(byte) == <<HexDigit(byte \div 16), HexDigit(byte % 16)>>

\* Array.from(array).map(byteToHex).join('')
ArrayToHex(array) ==
    [i \in 1..(2 * Len(array)) |->
        IF i % 2 = 1 THEN ByteToHex(array[(i + 1) \div 2])[1]
        ELSE ByteToHex(array[i \div 2])[2]]

MinLength == 16
MaxLength == 128

\* A range check that also refuses the minimum length
GenerateAboveMinimum(length, array) ==
    IF length <= MinLength \/ length > MaxLength
    THEN [threw |-> TRUE, drawn |-> FALSE, salt |-> Undefined]
    ELSE [threw |-> FALSE, drawn |-> TRUE, salt |-> ArrayToHex(array)]

\* SaltGenerator.generate(length), `array` being what crypto.getRandomValues
\* wrote; threw stands for the Error it throws, drawn for getRandomValues
\* having been called
Generate(length, array) ==
    IF length < MinLength \/ length > MaxLength
    THEN [threw |-> TRUE, drawn |-> FALSE, salt |-> Undefined]
    ELSE [threw |-> FALSE, drawn |-> TRUE, salt |-> ArrayToHex(array)]

\* String(undefined) in a concatenation
UndefinedText == <<117, 110, 100, 101, 102, 105, 110, 101, 100>>

\* data + salt with the salt put first
ConcatSaltFirst(data, salt) ==
    (IF salt = Undefined THEN UndefinedText ELSE salt)
        \o (IF data = Undefined THEN UndefinedText ELSE data)

\* data + salt
Concat(data, salt) ==
    (IF data = Undefined THEN UndefinedText ELSE data)
        \o (IF salt = Undefined THEN UndefinedText ELSE salt)

\* crypto.subtle.digest('SHA-256', bytes) is a platform primitive; it is
\* represented by a 32-byte value whose last three bytes are a position-
\* weighted checksum of the input, which is injective on the inputs of this
\* model
RECURSIVE Checksum(_, _, _)
Checksum(data, lo, hi) ==
    IF lo > hi THEN 7
    ELSE IF lo = hi THEN (data[lo] * (31 + lo) * (7 + lo)) % 16777216
    ELSE LET mid == (lo + hi) \div 2
         IN (Checksum(data, lo, mid) + Checksum(data, mid + 1, hi)) % 16777216

DigestBytes(data) ==
    LET c == Checksum(data, 1, Len(data))
    IN [i \in 1..32 |->
           IF i = 30 THEN c \div 65536
           ELSE IF i = 31 THEN (c \div 256) % 256
           ELSE IF i = 32 THEN c % 256
           ELSE 0]

\* Algorithm names
Sha1 == <<83, 72, 65, 45, 49>>
Sha256 == <<83, 72, 65, 45, 50, 53, 54>>
Sha384 == <<83, 72, 65, 45, 51, 56, 52>>
Sha512 == <<83, 72, 65, 45, 53, 49, 50>>

\* this.algorithms = ['SHA-1', 'SHA-256', 'SHA-384', 'SHA-512']
Algorithms == {Sha1, Sha256, Sha384, Sha512}

\* isAlgorithmSupported(algorithm): this.algorithms.includes(algorithm)
IsAlgorithmSupported(algorithm) == algorithm \in Algorithms

\* crypto.subtle.digest normalizes the algorithm name by a case-insensitive
\* match against the registered names
UpperCase(name) ==
    [i \in 1..Len(name) |-> IF name[i] \in 97..122 THEN name[i] - 32 ELSE name[i]]

Registered(algorithm) == algorithm # Undefined /\ UpperCase(algorithm) \in Algorithms

\* Digest size in bytes of a registered algorithm
DigestSize(algorithm) ==
    LET name == UpperCase(algorithm)
    IN IF name = Sha1 THEN 20
       ELSE IF name = Sha256 THEN 32
       ELSE IF name = Sha384 THEN 48
       ELSE 64

\* crypto.subtle.digest(algorithm, bytes) for a registered algorithm: as
\* DigestBytes, of the algorithm's size, which the first byte carries too
Digest(data, algorithm) ==
    IF UpperCase(algorithm) = Sha256 THEN DigestBytes(data)
    ELSE LET size == DigestSize(algorithm)
             c == Checksum(data, 1, Len(data))
         IN [i \in 1..size |->
                IF i = 1 THEN size
                ELSE IF i = size - 2 THEN c \div 65536
                ELSE IF i = size - 1 THEN (c \div 256) % 256
                ELSE IF i = size THEN c % 256
                ELSE 0]

\* A hash that answers an unregistered name with the SHA-256 digest
HashFallingBack(data, algorithm) ==
    LET name == IF algorithm = Undefined \/ ~Registered(algorithm) THEN Sha256
                ELSE algorithm
    IN [threw |-> FALSE, hex |-> ArrayToHex(Digest(data, name))]

\* hash(data, algorithm = 'SHA-256'): the hex digest, or the Error thrown when
\* crypto.subtle.digest rejects the algorithm
HashAlgorithm(data, algorithm) ==
    LET name == IF algorithm = Undefined THEN Sha256 ELSE algorithm
    IN IF Registered(name)
       THEN [threw |-> FALSE, hex |-> ArrayToHex(Digest(data, name))]
       ELSE [threw |-> TRUE, hex |-> Undefined]

\* hashWithSalt(data, salt, algorithm = 'SHA-256')
HashWithSaltAlgorithm(data, salt, algorithm) ==
    HashAlgorithm(Concat(data, salt), IF algorithm = Undefined THEN Sha256 ELSE algorithm)

\* HashGenerator.hash(data): bufferToHex(digest(encode(data)))
Hash(data) == HashAlgorithm(data, Undefined).hex

\* HashGenerator.hashWithSalt(data, salt)
HashWithSalt(data, salt) == HashWithSaltAlgorithm(data, salt, Undefined).hex

\* simulateBiometricExtraction: "demo-static-biometric-template"
StaticTemplate == <<100, 101, 109, 111, 45, 115, 116, 97, 116, 105, 99, 45, 98, 105, 111, 109, 101, 116, 114, 105, 99, 45, 116, 101, 109, 112, 108, 97, 116, 101>>

\* FaceDetection.detectFace on a frame of uniform brightness
FaceDetected(brightness) == brightness > 50 /\ brightness < 200
\* Math.min(avgBrightness / 200, 1), in hundredths
DetectionConfidence(brightness) ==
    IF FaceDetected(brightness)
    THEN (IF brightness >= 200 THEN 100 ELSE (brightness * 100) \div 200)
    ELSE 0

RECURSIVE Decimal(_)
Decimal(n) == IF n < 10 THEN <<48 + n>> ELSE Decimal(n \div 10) \o <<48 + (n % 10)>>

\* features.join(',') for `count` samples of one value
RECURSIVE JoinNumbers(_, _)
JoinNumbers(value, count) ==
    IF count = 0 THEN << >>
    ELSE IF count = 1 THEN Decimal(value)
    ELSE LET half == count \div 2
         IN JoinNumbers(value, half) \o <<44>> \o JoinNumbers(value, count - half)

Regions == 64

\* JSON.stringify(template.features): the 8x8 samples of a uniform frame
FeaturesJson(brightness) == <<91>> \o JoinNumbers(brightness, Regions) \o <<93>>

---------------------------------------------------------------------------
(* Inputs *)

Simulations == {"enrollment", "verification"}
Instances == {"direct"} \cup Simulations

FlowUsers == {UserA, <<98>>}
Kinds == {"fingerprint", "face"}
\* Average brightness of the captured frame
Frames == {30, 100, 150}
\* The value crypto.getRandomValues writes into every byte
RandomBytes == {1, 171}

NoRunResult == [returned |-> FALSE, success |-> FALSE, verified |-> FALSE, error |-> "none"]
NoEnrollmentData ==
    [set |-> FALSE, username |-> Undefined, type |-> "undefined", hash |-> Undefined,
     salt |-> Undefined, credentialId |-> 0, timestamp |-> NoTime]

\* The collaborators init() creates, each only when its class is defined
EnrollmentCollaborators ==
    {"webauthn", "faceDetection", "hashGenerator", "saltGenerator", "storage"}
VerificationCollaborators == {"webauthn", "faceDetection", "hashGenerator", "storage"}

\* The callback lists of a simulation: the event whose registered callback
\* throws, "none" when no callback throws
Events == {"onStepChange", "onProgress", "onComplete", "onError"}
ThrowingObservers == {"onComplete"}

\* One callback invocation: the event and the step index, or the progress in
\* tenths
Note(event, value) == [event |-> event, value |-> value]

\* A simulation object before its first run.  `data` is this.enrollmentData;
\* `seen` records, for a verification run, the enrollmentData the enrollment
\* simulation held when the run started; `result` is what the run returned;
\* `missing` is the collaborator init() left null, `throwing` the event whose
\* callback throws, `notes` the callbacks invoked by the current run
IdleRun ==
    [pc |-> "idle", kind |-> "undefined", username |-> Undefined, credentialId |-> 0,
     frame |-> 0, salt |-> Undefined, hash |-> Undefined, storedSalt |-> Undefined,
     storedHash |-> Undefined, match |-> FALSE,
     data |-> NoEnrollmentData, seen |-> NoEnrollmentData, result |-> NoRunResult,
     missing |-> "none", throwing |-> "none", notes |-> << >>]

DataA ==
    [type |-> "fingerprint", hash |-> HashAB, salt |-> Salt01, algorithm |-> "SHA-256",
     deviceInfo |-> "WebAuthn Platform Authenticator", templateSize |-> "30 bytes",
     confidence |-> 98]
DataB ==
    [type |-> "face", hash |-> HashCD, salt |-> SaltFF, algorithm |-> "undefined",
     deviceInfo |-> "Camera", templateSize |-> "undefined", confidence |-> 0]
DataC ==
    [type |-> "undefined", hash |-> Empty, salt |-> Empty, algorithm |-> "SHA-256",
     deviceInfo |-> "undefined", templateSize |-> "undefined", confidence |-> 50]
BiometricInputs == {DataA, DataB, DataC}

UpdateHash == [hash |-> HashCD, salt |-> Undefined, confidence |-> 0]
UpdateSalt == [hash |-> Undefined, salt |-> SaltFF, confidence |-> 75]
UpdateNone == [hash |-> Empty, salt |-> Empty, confidence |-> 0]
UpdateInputs == {UpdateHash, UpdateSalt, UpdateNone}

\* "ab", "cd" and "abc"
ProvidedHashes == {HashAB, HashCD, <<97, 98, 99>>}

\* Math.random().toString(36).substr(2, 9)
RandomParts == {1, 2}

---------------------------------------------------------------------------
(* State *)

Backing(inst) == IF variant = "memory" THEN mem[inst] ELSE ls

Commit(inst, m) ==
    IF variant = "memory"
    THEN mem' = [mem EXCEPT ![inst] = m] /\ ls' = ls
    ELSE ls' = m /\ mem' = mem

Call(op, inst, userId, arg, r) ==
    [op |-> op, inst |-> inst, userId |-> userId, arg |-> arg, r |-> r]

Init ==
    /\ variant \in {"memory", "local"}
    /\ mem = [i \in Instances |-> EmptyMap]
    /\ ls = EmptyMap
    /\ now = 0
    /\ ret = Call("none", "direct", Undefined, Undefined, NoResult)
    /\ creds = [h \in Simulations |-> {}]
    /\ device = {}
    /\ camera = [h \in Simulations |-> FALSE]
    /\ enroll = IdleRun
    /\ verify = IdleRun
    /\ runs = 0

CallStoreEnrollment(inst) ==
    \E userId \in UserIds, biometricData \in BiometricInputs, rnd \in RandomParts :
        LET out == StoreEnrollment(variant, Backing(inst), userId, biometricData,
                                   <<now, rnd>>, now)
        IN /\ now < MaxClock
           /\ now' = now + 1
           /\ Commit(inst, out.m)
           /\ ret' = Call("storeEnrollment", inst, userId, biometricData, out.r)
           /\ UNCHANGED variant
           /\ UNCHANGED flowVars

CallRetrieveEnrollment(inst) ==
    \E userId \in UserIds :
        LET out == RetrieveEnrollment(variant, Backing(inst), userId)
        IN /\ ret' = Call("retrieveEnrollment", inst, userId, Undefined, out.r)
           /\ UNCHANGED <<variant, mem, ls, now>>
           /\ UNCHANGED flowVars

CallVerifyBiometric(inst) ==
    \E userId \in UserIds, providedHash \in ProvidedHashes :
        LET out == VerifyBiometric(variant, Backing(inst), userId, providedHash, now)
        IN /\ now < MaxClock
           /\ now' = now + 1
           /\ Commit(inst, out.m)
           /\ ret' = Call("verifyBiometric", inst, userId, providedHash, out.r)
           /\ UNCHANGED variant
           /\ UNCHANGED flowVars

CallUpdateEnrollment(inst) ==
    \E userId \in UserIds, updates \in UpdateInputs :
        LET out == UpdateEnrollment(variant, Backing(inst), userId, updates, now)
        IN /\ now < MaxClock
           /\ now' = now + 1
           /\ Commit(inst, out.m)
           /\ ret' = Call("updateEnrollment", inst, userId, updates, out.r)
           /\ UNCHANGED variant
           /\ UNCHANGED flowVars

CallDeleteEnrollment(inst) ==
    \E userId \in UserIds :
        LET out == DeleteEnrollment(variant, Backing(inst), userId)
        IN /\ Commit(inst, out.m)
           /\ ret' = Call("deleteEnrollment", inst, userId, Undefined, out.r)
           /\ UNCHANGED <<variant, now>>
           /\ UNCHANGED flowVars

CallGetAllEnrollments(inst) ==
    LET out == GetAllEnrollments(variant, Backing(inst))
    IN /\ ret' = Call("getAllEnrollments", inst, Undefined, Undefined, out.r)
       /\ UNCHANGED <<variant, mem, ls, now>>
       /\ UNCHANGED flowVars

CallGetVerificationHistory(inst) ==
    \E userId \in UserIds :
        LET out == GetVerificationHistory(variant, Backing(inst), userId)
        IN /\ ret' = Call("getVerificationHistory", inst, userId, Undefined,
                          [NoResult EXCEPT !.success = out.isArray, !.list = out.entries])
           /\ UNCHANGED <<variant, mem, ls, now>>
           /\ UNCHANGED flowVars

CallClearAll(inst) ==
    LET out == ClearAll(variant, Backing(inst))
    IN /\ Commit(inst, out.m)
       /\ ret' = Call("clearAll", inst, Undefined, Undefined, out.r)
       /\ UNCHANGED <<variant, now>>
       /\ UNCHANGED flowVars

Next ==
    \/ CallStoreEnrollment("direct")
    \/ CallRetrieveEnrollment("direct")
    \/ CallVerifyBiometric("direct")
    \/ CallUpdateEnrollment("direct")
    \/ CallDeleteEnrollment("direct")
    \/ CallGetAllEnrollments("direct")
    \/ CallGetVerificationHistory("direct")
    \/ CallClearAll("direct")

Spec == Init /\ [][Next]_vars

---------------------------------------------------------------------------
(* EnrollmentSimulation and VerificationSimulation.  init() gives each      *)
(* simulation its own WebAuthnHandler, FaceDetection and BiometricStorage;  *)
(* a run is suspended at each await, where the other simulation may run.    *)

\* triggerStepChange(stepName, stepIndex) and triggerProgress(progress, message)
Step(index) == Note("onStepChange", index)
Progress(tenths) == Note("onProgress", tenths)

Notified(run, notes) == [run EXCEPT !.notes = @ \o notes]

\* The catch block: triggerError(error) and the returned object
Fail(run, err) ==
    [run EXCEPT !.pc = "idle",
                !.notes = @ \o <<Note("onError", 0)>>,
                !.result = [returned |-> TRUE, success |-> FALSE, verified |-> FALSE,
                            error |-> err]]

\* triggerComplete(data) and the returned object; a throwing onComplete
\* callback is caught by the run's catch block
Complete(run, verified) ==
    LET done == Notified(run, <<Note("onComplete", 0)>>)
    IN IF run.throwing = "onComplete" THEN Fail(done, "ObserverError")
       ELSE [done EXCEPT !.pc = "idle",
                         !.result = [returned |-> TRUE, success |-> TRUE,
                                     verified |-> verified, error |-> "none"]]

\* The capture provider of a run and the error thrown when it is null
Provider(kind) == IF kind = "fingerprint" THEN "webauthn" ELSE "faceDetection"
NotInitialized(kind) ==
    IF kind = "fingerprint" THEN "WebAuthn not initialized"
    ELSE "Face detection not initialized"

\* The TypeError of a method call on a null collaborator
NullCollaborator == "TypeError: null"

\* A run up to its first await: reset, the first two notifications and the
\* check of the capture provider
Started(sim, kind, username) ==
    LET run == [IdleRun EXCEPT !.kind = kind, !.username = username,
                               !.missing = sim.missing, !.throwing = sim.throwing,
                               !.notes = <<Step(0),
                                           Progress(IF kind = "fingerprint" THEN 2 ELSE 1)>>]
    IN IF sim.missing = Provider(kind) THEN Fail(run, NotInitialized(kind))
       ELSE [run EXCEPT !.pc = "capture"]

\* A catch block that leaves the camera as the failed step left it
ReleasedNever(h, run) == camera

\* The catch block of a face run calls stopCamera
Released(h, run) ==
    IF run.kind = "face" THEN [camera EXCEPT ![h] = FALSE] ELSE camera

\* The template string a run hashes
TemplateOf(run) ==
    IF run.kind = "fingerprint" THEN StaticTemplate ELSE FeaturesJson(run.frame)

\* The object a run passes to storeEnrollment
EnrollmentInput(run) ==
    [type |-> run.kind, hash |-> run.hash, salt |-> run.salt, algorithm |-> "SHA-256",
     deviceInfo |-> IF run.kind = "fingerprint" THEN "WebAuthn Platform Authenticator"
                    ELSE "Camera",
     templateSize |-> ToString(Len(TemplateOf(run))) \o " bytes",
     confidence |-> IF run.kind = "fingerprint" THEN 98
                    ELSE DetectionConfidence(run.frame)]

\* WebAuthnHandler.authenticate once navigator.credentials.get resolved with
\* an assertion whose id is c: found in this handler's credentials or not
Authenticate(handlerCredentials, c) ==
    IF c \in handlerCredentials
    THEN [success |-> TRUE, error |-> "none"]
    ELSE [success |-> FALSE, error |-> "Credential not found"]

EnrollStart(kind, username) ==
    /\ enroll.pc = "idle"
    /\ runs < MaxRuns
    /\ runs' = runs + 1
    /\ enroll' = Started(enroll, kind, username)
    /\ UNCHANGED <<storageVars, creds, device, camera, verify>>

\* webauthn.register(username) / faceDetection.initializeCamera(video)
EnrollCapture ==
    /\ enroll.pc = "capture"
    /\ \/ /\ enroll.kind = "fingerprint"
          /\ LET c == Cardinality(device) + 1
             IN /\ device' = device \cup {c}
                /\ creds' = [creds EXCEPT !["enrollment"] = @ \cup {c}]
                /\ enroll' = [Notified(enroll, <<Progress(4), Step(1)>>)
                                 EXCEPT !.pc = "extract", !.credentialId = c]
          /\ UNCHANGED camera
       \/ /\ enroll.kind = "fingerprint"
          /\ enroll' = Fail(enroll, "NotAllowedError")
          /\ UNCHANGED <<creds, device, camera>>
       \/ /\ enroll.kind = "face"
          /\ camera' = [camera EXCEPT !["enrollment"] = TRUE]
          /\ enroll' = [Notified(enroll, <<Progress(2)>>) EXCEPT !.pc = "frame"]
          /\ UNCHANGED <<creds, device>>
       \/ /\ enroll.kind = "face"
          /\ camera' = [camera EXCEPT !["enrollment"] = FALSE]
          /\ enroll' = Fail(enroll, "Failed to initialize camera")
          /\ UNCHANGED <<creds, device>>
       \/ /\ enroll.kind = "face"
          /\ camera' = Released("enrollment", enroll)
          /\ enroll' = Fail(enroll, "Failed to load video")
          /\ UNCHANGED <<creds, device>>
    /\ UNCHANGED <<storageVars, verify, runs>>

\* faceDetection.captureFaceImage()
EnrollFrame ==
    /\ enroll.pc = "frame"
    /\ IF camera["enrollment"]
       THEN /\ \E frame \in Frames :
                  enroll' = [Notified(enroll, <<Progress(3), Progress(4), Step(1)>>)
                                EXCEPT !.pc = "extract", !.frame = frame]
            /\ UNCHANGED camera
       ELSE /\ enroll' = Fail(Notified(enroll, <<Progress(3)>>), "Camera not initialized")
            /\ camera' = [camera EXCEPT !["enrollment"] = FALSE]
    /\ UNCHANGED <<storageVars, creds, device, verify, runs>>

\* simulateBiometricExtraction / faceDetection.extractFaceTemplate
EnrollExtract ==
    /\ enroll.pc = "extract"
    /\ IF enroll.kind = "face" /\ ~FaceDetected(enroll.frame)
       THEN /\ enroll' = Fail(enroll, "No face detected")
            /\ camera' = [camera EXCEPT !["enrollment"] = FALSE]
       ELSE /\ enroll' = [Notified(enroll, <<Progress(5), Step(2)>>) EXCEPT !.pc = "salt"]
            /\ UNCHANGED camera
    /\ UNCHANGED <<storageVars, creds, device, verify, runs>>

\* saltGenerator.generate(32)
EnrollSalt ==
    /\ enroll.pc = "salt"
    /\ IF enroll.missing = "saltGenerator"
       THEN /\ enroll' = Fail(enroll, NullCollaborator)
            /\ camera' = Released("enrollment", enroll)
       ELSE /\ \E byte \in RandomBytes :
                  enroll' = [Notified(enroll, <<Progress(6), Step(3)>>)
                                EXCEPT !.pc = "hash",
                                       !.salt = Generate(32, [i \in 1..32 |-> byte]).salt]
            /\ UNCHANGED camera
    /\ UNCHANGED <<storageVars, creds, device, verify, runs>>

\* hashGenerator.hashWithSalt(template, salt)
EnrollHash ==
    /\ enroll.pc = "hash"
    /\ IF enroll.missing = "hashGenerator"
       THEN /\ enroll' = Fail(enroll, NullCollaborator)
            /\ camera' = Released("enrollment", enroll)
       ELSE /\ enroll' = [Notified(enroll, <<Progress(8), Step(4)>>)
                             EXCEPT !.pc = "store",
                                    !.hash = HashWithSalt(TemplateOf(enroll), enroll.salt)]
            /\ UNCHANGED camera
    /\ UNCHANGED <<storageVars, creds, device, verify, runs>>

\* storage.storeEnrollment(username, {...}), stopCamera, the last progress
\* notification, this.enrollmentData and triggerComplete
EnrollStore ==
    /\ enroll.pc = "store"
    /\ IF enroll.missing = "storage"
       THEN /\ enroll' = Fail(enroll, NullCollaborator)
            /\ UNCHANGED storageVars
       ELSE /\ \E rnd \in RandomParts :
                  LET out == StoreEnrollment(variant, Backing("enrollment"),
                                             enroll.username, EnrollmentInput(enroll),
                                             <<now, rnd>>, now)
                      data == [set |-> TRUE, username |-> enroll.username,
                               type |-> enroll.kind, hash |-> enroll.hash,
                               salt |-> enroll.salt,
                               credentialId |-> enroll.credentialId,
                               timestamp |-> now]
                  IN /\ Commit("enrollment", out.m)
                     /\ enroll' =
                           IF out.r.threw THEN Fail(enroll, out.r.error)
                           ELSE Complete([Notified(enroll, <<Progress(10)>>)
                                             EXCEPT !.data = data], FALSE)
            /\ now' = now + 1
            /\ UNCHANGED <<variant, ret>>
    /\ camera' = Released("enrollment", enroll)
    /\ UNCHANGED <<creds, device, verify, runs>>

VerifyStart(kind, username) ==
    /\ verify.pc = "idle"
    /\ runs < MaxRuns
    /\ runs' = runs + 1
    /\ verify' = [Started(verify, kind, username)
                     EXCEPT !.seen = IF enroll.pc = "idle" THEN enroll.data
                                     ELSE NoEnrollmentData]
    /\ UNCHANGED <<storageVars, creds, device, camera, enroll>>

\* webauthn.authenticate() / faceDetection.initializeCamera(video)
VerifyCapture ==
    /\ verify.pc = "capture"
    /\ \/ /\ verify.kind = "fingerprint"
          /\ \E c \in device :
                LET assertion == Authenticate(creds["verification"], c)
                IN verify' = IF assertion.success
                             THEN [Notified(verify, <<Progress(4), Step(1)>>)
                                      EXCEPT !.pc = "extract", !.credentialId = c]
                             ELSE [Fail(verify, assertion.error) EXCEPT !.credentialId = c]
          /\ UNCHANGED camera
       \/ /\ verify.kind = "fingerprint"
          /\ verify' = Fail(verify, "NotAllowedError")
          /\ UNCHANGED camera
       \/ /\ verify.kind = "face"
          /\ camera' = [camera EXCEPT !["verification"] = TRUE]
          /\ verify' = [Notified(verify, <<Progress(2)>>) EXCEPT !.pc = "frame"]
       \/ /\ verify.kind = "face"
          /\ camera' = [camera EXCEPT !["verification"] = FALSE]
          /\ verify' = Fail(verify, "Failed to initialize camera")
       \/ /\ verify.kind = "face"
          /\ camera' = Released("verification", verify)
          /\ verify' = Fail(verify, "Failed to load video")
    /\ UNCHANGED <<storageVars, creds, device, enroll, runs>>

VerifyFrame ==
    /\ verify.pc = "frame"
    /\ IF camera["verification"]
       THEN /\ \E frame \in Frames :
                  verify' = [Notified(verify, <<Progress(3), Progress(4), Step(1)>>)
                                EXCEPT !.pc = "extract", !.frame = frame]
            /\ UNCHANGED camera
       ELSE /\ verify' = Fail(Notified(verify, <<Progress(3)>>), "Camera not initialized")
            /\ camera' = [camera EXCEPT !["verification"] = FALSE]
    /\ UNCHANGED <<storageVars, creds, device, enroll, runs>>

VerifyExtract ==
    /\ verify.pc = "extract"
    /\ IF verify.kind = "face" /\ ~FaceDetected(verify.frame)
       THEN /\ verify' = Fail(verify, "No face detected")
            /\ camera' = [camera EXCEPT !["verification"] = FALSE]
       ELSE /\ verify' = [Notified(verify, <<Progress(5), Step(2)>>)
                             EXCEPT !.pc = "retrieve"]
            /\ UNCHANGED camera
    /\ UNCHANGED <<storageVars, creds, device, enroll, runs>>

\* A retrieve step that also records the attempt, through
\* storage.verifyBiometric with an empty hash
VerifyRetrieveLogging ==
    /\ verify.pc = "retrieve"
    /\ LET out == VerifyBiometric(variant, Backing("verification"), verify.username,
                                  Empty, now)
           enrollment == RetrieveEnrollment(variant, Backing("verification"),
                                            verify.username).r
           failed == enrollment.threw \/ ~enrollment.success
       IN /\ Commit("verification", out.m)
          /\ verify' =
                IF enrollment.threw THEN Fail(verify, enrollment.error)
                ELSE IF ~enrollment.success THEN Fail(verify, "User not enrolled")
                ELSE [Notified(verify, <<Progress(6), Step(3)>>)
                         EXCEPT !.pc = "hash",
                                !.storedSalt = enrollment.data.salt,
                                !.storedHash = enrollment.data.hash]
          /\ camera' = IF failed THEN Released("verification", verify) ELSE camera
    /\ UNCHANGED <<variant, now, ret, creds, device, enroll, runs>>

\* storage.retrieveEnrollment(username)
VerifyRetrieve ==
    /\ verify.pc = "retrieve"
    /\ LET enrollment == RetrieveEnrollment(variant, Backing("verification"),
                                            verify.username).r
           failed == \/ verify.missing = "storage"
                     \/ enrollment.threw
                     \/ ~enrollment.success
       IN /\ verify' =
                IF verify.missing = "storage" THEN Fail(verify, NullCollaborator)
                ELSE IF enrollment.threw THEN Fail(verify, enrollment.error)
                ELSE IF ~enrollment.success THEN Fail(verify, "User not enrolled")
                ELSE [Notified(verify, <<Progress(6), Step(3)>>)
                         EXCEPT !.pc = "hash",
                                !.storedSalt = enrollment.data.salt,
                                !.storedHash = enrollment.data.hash]
          /\ camera' = IF failed THEN Released("verification", verify) ELSE camera
    /\ UNCHANGED <<storageVars, creds, device, enroll, runs>>

\* hashGenerator.hashWithSalt(template, storedSalt)
VerifyHash ==
    /\ verify.pc = "hash"
    /\ IF verify.missing = "hashGenerator"
       THEN /\ verify' = Fail(verify, NullCollaborator)
            /\ camera' = Released("verification", verify)
       ELSE /\ verify' = [Notified(verify, <<Progress(8), Step(4)>>)
                             EXCEPT !.pc = "compare",
                                    !.hash = HashWithSalt(TemplateOf(verify),
                                                          verify.storedSalt)]
            /\ UNCHANGED camera
    /\ UNCHANGED <<storageVars, creds, device, enroll, runs>>

\* hashGenerator.compareHashes(computedHash, storedHash); verifyFingerprint
\* then calls storage.verifyBiometric(username, computedHash), verifyFace
\* calls stopCamera instead; then the last progress notification and
\* triggerComplete
VerifyCompare ==
    /\ verify.pc = "compare"
    /\ LET match == CompareHashes(verify.hash, verify.storedHash)
           out == IF verify.kind = "fingerprint"
                  THEN VerifyBiometric(variant, Backing("verification"), verify.username,
                                       verify.hash, now)
                  ELSE Returns(Backing("verification"), NoResult)
       IN /\ Commit("verification", out.m)
          /\ verify' =
                IF out.r.threw THEN Fail(verify, out.r.error)
                ELSE Complete([Notified(verify, <<Progress(10)>>)
                                  EXCEPT !.match = match], match)
    /\ now' = IF verify.kind = "fingerprint" THEN now + 1 ELSE now
    /\ camera' = Released("verification", verify)
    /\ UNCHANGED <<variant, ret, creds, device, enroll, runs>>

NextFlow ==
    \/ \E kind \in Kinds, username \in FlowUsers : EnrollStart(kind, username)
    \/ EnrollCapture
    \/ EnrollFrame
    \/ EnrollExtract
    \/ EnrollSalt
    \/ EnrollHash
    \/ EnrollStore
    \/ \E kind \in Kinds, username \in FlowUsers : VerifyStart(kind, username)
    \/ VerifyCapture
    \/ VerifyFrame
    \/ VerifyExtract
    \/ VerifyRetrieve
    \/ VerifyHash
    \/ VerifyCompare

SpecFlow == Init /\ [][NextFlow]_vars

\* A simulation whose init() left one collaborator null, or on which a
\* throwing callback was registered
Faulty(missing, throwing) == [IdleRun EXCEPT !.missing = missing, !.throwing = throwing]

EnrollmentFaults ==
    {Faulty(c, "none") : c \in EnrollmentCollaborators}
        \cup {Faulty("none", e) : e \in ThrowingObservers}
VerificationFaults ==
    {Faulty(c, "none") : c \in VerificationCollaborators}
        \cup {Faulty("none", e) : e \in ThrowingObservers}

\* One of the two simulations is faulty
InitFault ==
    /\ variant \in {"memory", "local"}
    /\ mem = [i \in Instances |-> EmptyMap]
    /\ ls = EmptyMap
    /\ now = 0
    /\ ret = Call("none", "direct", Undefined, Undefined, NoResult)
    /\ creds = [h \in Simulations |-> {}]
    /\ device = {}
    /\ camera = [h \in Simulations |-> FALSE]
    /\ \/ enroll \in EnrollmentFaults /\ verify = IdleRun
       \/ enroll = IdleRun /\ verify \in VerificationFaults
    /\ runs = 0

\* The runs of one user
NextFault ==
    \/ \E kind \in Kinds : EnrollStart(kind, UserA)
    \/ EnrollCapture
    \/ EnrollFrame
    \/ EnrollExtract
    \/ EnrollSalt
    \/ EnrollHash
    \/ EnrollStore
    \/ \E kind \in Kinds : VerifyStart(kind, UserA)
    \/ VerifyCapture
    \/ VerifyFrame
    \/ VerifyExtract
    \/ VerifyRetrieve
    \/ VerifyHash
    \/ VerifyCompare

SpecFault == InitFault /\ [][NextFault]_vars

---------------------------------------------------------------------------
(* Properties of the storage interface, checked under Spec *)

Store == Backing("direct")

\* An EnrollmentRecord is stored for userId
HasRecord(m, userId) ==
    IF variant = "memory"
    THEN Has(m, userId) /\ m[userId].t = "enc"
    ELSE Has(m, KeyPrefix \o userId) /\ m[KeyPrefix \o userId].t = "jsonobj"

StoredRecord(m, userId) ==
    IF variant = "memory" THEN m[userId].v ELSE m[KeyPrefix \o userId].v

History(m, userId) == GetVerificationHistory(variant, m, userId)

NoHistory == [isArray |-> TRUE, entries |-> << >>]

\* The step is a call of `op` on the storage interface
IsCall(op) == ret'.op = op /\ UNCHANGED flowVars

Occurrences(list, userId) ==
    Cardinality({i \in 1..Len(list) : list[i].userId = userId})

\* C2: storeEnrollment(uid, {hash: H, salt: S, ...}) followed by
\* retrieveEnrollment(uid) returns success:true with data.hash = H and
\* data.salt = S, for every uid, H and S, in both storage variants.
C2_StoreRetrieveRoundTrip ==
    ret.op = "storeEnrollment" =>
        LET got == RetrieveEnrollment(variant, Store, ret.userId).r
        IN /\ ~ret.r.threw
           /\ ~got.threw
           /\ got.success
           /\ got.data.hash = ret.arg.hash
           /\ got.data.salt = ret.arg.salt

\* C3: verifyBiometric(userId, providedHash) returns verified:true exactly
\* when a record is stored for userId and its hash equals providedHash; with
\* no stored record it returns verified:false, success:false and an error,
\* and does not throw.
C3_VerifiedIffStoredHashEqual ==
    [][IsCall("verifyBiometric") =>
          LET userId == ret'.userId
              found == HasRecord(Store, userId)
          IN /\ ~ret'.r.threw
             /\ ret'.r.verified <=>
                   (found /\ StoredRecord(Store, userId).hash = ret'.arg)
             /\ ~found => (~ret'.r.verified /\ ~ret'.r.success /\ ret'.r.error # "none")
      ]_vars

\* C4: verifyBiometric(userId, h) appends exactly one entry {userId,
\* timestamp, success, date} to the log of userId when a stored record was
\* found, success being the comparison outcome, and leaves every log
\* unchanged when userId has no stored record.
C4_LoggedIffRecordFound ==
    [][IsCall("verifyBiometric") =>
          LET userId == ret'.userId
          IN IF HasRecord(Store, userId)
             THEN /\ History(Store, userId).isArray
                  /\ History(Store', userId) =
                        [isArray |-> TRUE,
                         entries |-> Append(History(Store, userId).entries,
                                            LogEntry(userId, ret'.r.verified, now))]
             ELSE \A other \in UserIds : History(Store', other) = History(Store, other)
      ]_vars

\* C7: deleteEnrollment never throws, returns deleted:true for an enrolled
\* user and deleted:false for a user that is not enrolled (so twice in a row
\* gives true then false), and afterwards retrieveEnrollment reports not found.
C7_DeleteIdempotent ==
    [][IsCall("deleteEnrollment") =>
          LET userId == ret'.userId
              after == RetrieveEnrollment(variant, Store', userId).r
          IN /\ ~ret'.r.threw
             /\ ret'.r.deleted <=> HasRecord(Store, userId)
             /\ ~after.threw /\ ~after.success /\ after.error = "User not found"
      ]_vars

\* C8: after deleteEnrollment(u), getVerificationHistory(u) returns the empty
\* list, whatever was logged for u before, in both storage variants.
C8_DeleteClearsLog ==
    [][IsCall("deleteEnrollment") => History(Store', ret'.userId) = NoHistory]_vars

\* C9: storeEnrollment always succeeds and overwrites: after it,
\* retrieveEnrollment(u) returns the hash and salt just stored,
\* getAllEnrollments lists u exactly once, and no hash verifies for u other
\* than the one just stored.
C9_OneLiveRecordPerUser ==
    ret.op = "storeEnrollment" =>
        LET got == RetrieveEnrollment(variant, Store, ret.userId).r
            all == GetAllEnrollments(variant, Store).r
        IN /\ ~ret.r.threw /\ ret.r.success
           /\ ~got.threw /\ got.success
           /\ got.data.hash = ret.arg.hash /\ got.data.salt = ret.arg.salt
           /\ ~all.threw /\ Occurrences(all.list, ret.userId) = 1
           /\ \A h \in ProvidedHashes :
                 LET v == VerifyBiometric(variant, Store, ret.userId, h, now).r
                 IN ~v.threw /\ (v.verified => h = ret.arg.hash)

\* C10: updateEnrollment on a userId with no stored record returns
\* success:false (not found) and leaves the whole store unchanged.
C10_UpdateMissingIsNotFound ==
    [][(IsCall("updateEnrollment") /\ ~HasRecord(Store, ret'.userId)) =>
          /\ ~ret'.r.threw
          /\ ~ret'.r.success
          /\ ret'.r.error = "User not found"
          /\ mem' = mem /\ ls' = ls
      ]_vars

---------------------------------------------------------------------------
(* Properties of the simulation flows, checked under SpecFlow *)

\* The entries the verification simulation's storage holds for username
FlowLog(username) == History(Backing("verification"), username).entries

IsPrefix(s, t) == Len(s) <= Len(t) /\ SubSeq(t, 1, Len(s)) = s

\* The verification run returned, it was started after an enrollment of the
\* same user had completed, and no enrollment has run since
VerifiedAfterEnrollment ==
    /\ verify.pc = "idle" /\ verify.result.returned
    /\ verify.seen.set /\ verify.seen.username = verify.username
    /\ enroll.pc = "idle" /\ enroll.data = verify.seen

\* Verifying with a template other than the enrolled one is rejected
DifferentTemplateRejected ==
    (VerifiedAfterEnrollment /\ TemplateOf(verify) # TemplateOf(enroll))
        => ~verify.result.verified

\* C1: after enrollFingerprint(u) completed with success, a later
\* verifyFingerprint(u) captured by the same credential, with no store, update
\* or delete for u in between, reports success:true and verified:true;
\* verifying with a template different from the enrolled one reports
\* verified:false.
C1_EnrollThenVerify ==
    /\ (/\ VerifiedAfterEnrollment
        /\ verify.kind = "fingerprint"
        /\ verify.seen.type = "fingerprint"
        /\ verify.credentialId = verify.seen.credentialId)
          => (verify.result.success /\ verify.result.verified)
    /\ DifferentTemplateRejected

\* C6: every run of verifyFingerprint(u) or verifyFace(u) that reaches the
\* compare step for an enrolled user u adds one entry to u's verification
\* log, and no step of the flows changes or removes an existing entry.
C6_EveryAttemptLogged ==
    [][/\ (verify.pc = "compare" /\ verify'.pc = "idle") =>
             Len(FlowLog(verify.username)') = Len(FlowLog(verify.username)) + 1
       /\ \A username \in FlowUsers : IsPrefix(FlowLog(username), FlowLog(username)')
      ]_vars

---------------------------------------------------------------------------
(* The verification log under repeated attempts *)

MaxAttempts == 150

\* The hash the caller presents at time t: "ab" and "cd" in turn
PresentedHash(t) == IF t % 2 = 0 THEN HashAB ELSE HashCD

\* One user enrolled at time 0 in a fresh store
InitLog ==
    /\ variant \in {"memory", "local"}
    /\ \E biometricData \in BiometricInputs, rnd \in RandomParts :
          LET out == StoreEnrollment(variant, EmptyMap, UserA, biometricData,
                                     <<0, rnd>>, 0)
          IN /\ mem = [i \in Instances |->
                          IF variant = "memory" /\ i = "direct" THEN out.m ELSE EmptyMap]
             /\ ls = IF variant = "local" THEN out.m ELSE EmptyMap
             /\ ret = Call("storeEnrollment", "direct", UserA, biometricData, out.r)
    /\ now = 1
    /\ creds = [h \in Simulations |-> {}]
    /\ device = {}
    /\ camera = [h \in Simulations |-> FALSE]
    /\ enroll = IdleRun
    /\ verify = IdleRun
    /\ runs = 0

\* storage.verifyBiometric(userId, hash), one attempt per tick of the clock
Attempt ==
    LET out == VerifyBiometric(variant, Backing("direct"), UserA, PresentedHash(now), now)
    IN /\ now <= MaxAttempts
       /\ now' = now + 1
       /\ Commit("direct", out.m)
       /\ ret' = Call("verifyBiometric", "direct", UserA, PresentedHash(now), out.r)
       /\ UNCHANGED variant
       /\ UNCHANGED flowVars

NextLog == Attempt

SpecLog == InitLog /\ [][NextLog]_vars

\* Attempts made so far: attempt t is the one made at time t
Attempts == now - 1

Kept == IF Attempts < LogCap THEN Attempts ELSE LogCap

\* The entry attempt t must have logged
Logged(t) ==
    LogEntry(UserA, StoredRecord(Store, UserA).hash = PresentedHash(t), t)

\* C5: the verification log of every user holds at most 100 entries; logging
\* on a full log drops the oldest entry and keeps the others in order with the
\* new entry last, so that after n attempts for one user the log holds exactly
\* the min(n, 100) newest entries in order (the 100 newest after 150).
C5_LogCapped ==
    /\ \A userId \in UserIds : Len(History(Store, userId).entries) <= LogCap
    /\ History(Store, UserA).isArray
    /\ Len(History(Store, UserA).entries) = Kept
    /\ \A i \in 1..Kept :
          History(Store, UserA).entries[i] = Logged(Attempts - Kept + i)

\* 150 attempts were logged and the log starts at the 51st of them
C5_Witness ==
    /\ Attempts = 150
    /\ Len(History(Store, UserA).entries) = 100
    /\ History(Store, UserA).entries[1].timestamp = 51
    /\ History(Store, UserA).entries[100].timestamp = 150
    /\ \E i \in 1..100 : History(Store, UserA).entries[i].success
    /\ \E i \in 1..100 : ~History(Store, UserA).entries[i].success

---------------------------------------------------------------------------
(* Further properties of the storage interface, checked under Spec *)

\* C11: retrieveEnrollment on a userId with no record of its own returns a
\* not-found value (success:false with an error) and never throws, in every
\* reachable state of the store, other users' records and logs included.
C11_RetrieveMissingIsNotFound ==
    (ret.op = "retrieveEnrollment" /\ ~HasRecord(Store, ret.userId)) =>
        /\ ~ret.r.threw
        /\ ~ret.r.success
        /\ ret.r.error # "none"

\* The users that hold a record
Enrolled == {userId \in UserIds : HasRecord(Store, userId)}

\* C12: getAllEnrollments() returns without throwing exactly one summary
\* {userId, enrollmentId, biometricType, enrollmentDate, confidence} per
\* currently enrolled user, with no hash or salt field, and no entry for
\* verification logs or deleted users.
C12_ListsEnrolledUsersOnce ==
    LET all == GetAllEnrollments(variant, Store).r
    IN /\ ~all.threw
       /\ Len(all.list) = Cardinality(Enrolled)
       /\ \A userId \in Enrolled : Occurrences(all.list, userId) = 1
       /\ \A i \in 1..Len(all.list) :
             DOMAIN all.list[i] =
                {"userId", "enrollmentId", "biometricType", "enrollmentDate", "confidence"}

---------------------------------------------------------------------------
(* compareHashes as a function of its two arguments *)

MaxLen == 3

\* "a", "b" and U+0161, whose low byte is that of "a"
Units == {97, 98, 353}

Strings == UNION {[1..n -> Units] : n \in 0..MaxLen}

\* The parts of the state a call of a pure function leaves alone
Untouched ==
    /\ variant = "memory"
    /\ mem = [i \in Instances |-> EmptyMap]
    /\ ls = EmptyMap
    /\ now = 0
    /\ creds = [h \in Simulations |-> {}]
    /\ device = {}
    /\ camera = [h \in Simulations |-> FALSE]
    /\ enroll = IdleRun
    /\ verify = IdleRun
    /\ runs = 0

InitCompare ==
    /\ Untouched
    /\ \E hash1 \in Strings, hash2 \in Strings :
          ret = Call("pending", "direct", hash1, hash2, [returned |-> FALSE])

\* compareHashes(hash1, hash2)
Compare ==
    /\ ret.op = "pending"
    /\ ret' = Call("compareHashes", "direct", ret.userId, ret.arg,
                   [returned |-> CompareHashes(ret.userId, ret.arg)])
    /\ UNCHANGED <<variant, mem, ls, now>>
    /\ UNCHANGED flowVars

NextCompare == Compare

SpecCompare == InitCompare /\ [][NextCompare]_vars

\* C13: compareHashes(h1, h2) is true exactly when h1 and h2 are the same
\* non-empty string; it is false when they differ, when their lengths differ,
\* and when either is empty (so compareHashes("", "") is false).
C13_EqualAndNonEmpty ==
    ret.op = "compareHashes" =>
        (ret.r.returned <=> (ret.userId = ret.arg /\ ret.userId # << >>))

\* Two equal strings of three units, one above U+00FF, compared true
C13_Witness ==
    /\ ret.op = "compareHashes"
    /\ ret.userId = <<97, 98, 353>>
    /\ ret.arg = <<97, 98, 353>>
    /\ ret.r.returned

\* C13 as stated: compareHashes agrees with string equality on every pair of
\* strings, compareHashes(h, h) being true for all h.
C13_AgreesWithEquality ==
    ret.op = "compareHashes" => (ret.r.returned <=> ret.userId = ret.arg)

---------------------------------------------------------------------------
(* SaltGenerator.generate as a function of the length and the random bytes *)

Margin == 2

\* The lengths asked for: the accepted range and some on either side
SaltLengths == (MinLength - Margin)..(MaxLength + Margin)

\* What crypto.getRandomValues writes: first, first + step, ... (mod 256)
FirstBytes == {0, 9, 171, 255}
Steps == {0, 1, 37}
RandomArray(length, first, step) ==
    [i \in 1..length |-> (first + (i - 1) * step) % 256]

HexUnits == (48..57) \cup (97..102)

InitSalt ==
    /\ Untouched
    /\ \E length \in SaltLengths, first \in FirstBytes, step \in Steps :
          ret = Call("pending", "direct", length, RandomArray(length, first, step),
                     [threw |-> FALSE, drawn |-> FALSE, salt |-> Undefined])

\* saltGenerator.generate(length)
CallGenerate ==
    /\ ret.op = "pending"
    /\ ret' = Call("generate", "direct", ret.userId, ret.arg, Generate(ret.userId, ret.arg))
    /\ UNCHANGED <<variant, mem, ls, now>>
    /\ UNCHANGED flowVars

NextSalt == CallGenerate

SpecSalt == InitSalt /\ [][NextSalt]_vars

\* C14: generate(lengthBytes) returns, for every lengthBytes in 16..128, a
\* string of exactly 2 x lengthBytes characters, each in [0-9a-f]; for every
\* lengthBytes below 16 or above 128 it fails with an error before any value
\* is drawn from the random source.
C14_GenerateHexOfLength ==
    ret.op = "generate" =>
        IF ret.userId \in 16..128
        THEN /\ ~ret.r.threw
             /\ Len(ret.r.salt) = 2 * ret.userId
             /\ \A i \in 1..Len(ret.r.salt) : ret.r.salt[i] \in HexUnits
        ELSE ret.r.threw /\ ~ret.r.drawn

\* A salt of the minimum length was generated from bytes that need padding
\* ("09") and bytes that need letters
C14_Witness ==
    /\ ret.op = "generate"
    /\ ret.userId = 16
    /\ ~ret.r.threw
    /\ Len(ret.r.salt) = 32
    /\ SubSeq(ret.r.salt, 1, 2) = <<48, 57>>
    /\ \E i \in 1..32 : ret.r.salt[i] \in 97..102

---------------------------------------------------------------------------
(* HashGenerator.hash and hashWithSalt as functions of their arguments *)

\* "ab", the fingerprint template, "" and "a"
HashData == {HashAB, StaticTemplate, Empty, <<97>>}

\* "", "b" and two generated salts
HashSalts == {Empty, <<98>>, Salt01, SaltFF}

\* The four listed names, "sha-256", "Sha-512", "MD5", "SHA-3", "" and the
\* argument left out
AlgorithmInputs ==
    Algorithms \cup {<<115, 104, 97, 45, 50, 53, 54>>, <<83, 104, 97, 45, 53, 49, 50>>,
                     <<77, 68, 53>>, <<83, 72, 65, 45, 51>>, Empty, Undefined}

NoDigest == [threw |-> FALSE, hex |-> Undefined]

InitHash ==
    /\ Untouched
    /\ \E data \in HashData, salt \in HashSalts, algorithm \in AlgorithmInputs :
          ret = Call("pending", "direct", [data |-> data, salt |-> salt], algorithm,
                     NoDigest)

\* hashGenerator.hash(data + salt, algorithm)
CallHash ==
    /\ ret' = Call("hash", "direct", ret.userId, ret.arg,
                   HashAlgorithm(Concat(ret.userId.data, ret.userId.salt), ret.arg))
    /\ UNCHANGED <<variant, mem, ls, now>>
    /\ UNCHANGED flowVars

\* hashGenerator.hashWithSalt(data, salt, algorithm)
CallHashWithSalt ==
    /\ ret' = Call("hashWithSalt", "direct", ret.userId, ret.arg,
                   HashWithSaltAlgorithm(ret.userId.data, ret.userId.salt, ret.arg))
    /\ UNCHANGED <<variant, mem, ls, now>>
    /\ UNCHANGED flowVars

NextHash == CallHash \/ CallHashWithSalt

SpecHash == InitHash /\ [][NextHash]_vars

\* The hex digest size of each listed algorithm
HexSize(name) ==
    IF name = Sha1 THEN 40 ELSE IF name = Sha256 THEN 64
    ELSE IF name = Sha384 THEN 96 ELSE 128

\* C15: hashWithSalt(data, salt, algorithm) equals hash(data + salt,
\* algorithm), the salt appended after the data, whenever it is called (so
\* equal arguments give equal results); with the algorithm left out, as in the
\* enrollment and verification flows, it is the SHA-256 digest.
C15_HashWithSaltIsHashOfConcat ==
    ret.op = "hashWithSalt" =>
        LET salted == ret.userId.data \o ret.userId.salt
        IN /\ ret.r = HashAlgorithm(salted, ret.arg)
           /\ ret.arg = Undefined =>
                 /\ ret.r = HashAlgorithm(salted, Sha256)
                 /\ ~ret.r.threw /\ Len(ret.r.hex) = 64
                 /\ HashWithSalt(ret.userId.data, ret.userId.salt) = ret.r.hex

\* The fingerprint template was hashed with a generated salt, the algorithm
\* left out, and the digest differs from that of the salt put first
C15_Witness ==
    /\ ret.op = "hashWithSalt"
    /\ ret.userId = [data |-> StaticTemplate, salt |-> Salt01]
    /\ ret.arg = Undefined
    /\ ~ret.r.threw
    /\ ret.r.hex # HashAlgorithm(Salt01 \o StaticTemplate, Sha256).hex

\* C16: hash and hashWithSalt called with an algorithm name that matches none
\* of SHA-1, SHA-256, SHA-384, SHA-512 without regard to letter case throw an
\* error and return no digest; a name that matches one of them in another
\* letter case is accepted and yields the digest of that algorithm, never of
\* a different one.
C16_UnregisteredNameRejected ==
    (ret.op \in {"hash", "hashWithSalt"} /\ ret.arg # Undefined) =>
        IF UpperCase(ret.arg) \in {Sha1, Sha256, Sha384, Sha512}
        THEN /\ ~ret.r.threw
             /\ Len(ret.r.hex) = HexSize(UpperCase(ret.arg))
             /\ ret.r = HashAlgorithm(ret.userId.data \o ret.userId.salt,
                                      UpperCase(ret.arg))
        ELSE ret.r.threw /\ ret.r.hex = Undefined

\* hashWithSalt was called with "MD5" and threw
C16_Witness ==
    /\ ret.op = "hashWithSalt"
    /\ ret.arg = <<77, 68, 53>>
    /\ ret.r.threw
    /\ ret.r.hex = Undefined

\* C16 as stated: an algorithm name outside {SHA-1, SHA-256, SHA-384,
\* SHA-512} makes hash and hashWithSalt signal an error and return no digest.
C16_UnlistedNameRejected ==
    (ret.op \in {"hash", "hashWithSalt"} /\ ret.arg # Undefined
        /\ ~IsAlgorithmSupported(ret.arg)) =>
            ret.r.threw /\ ret.r.hex = Undefined

---------------------------------------------------------------------------
(* Failing runs *)

\* The device delivered a capture to the run: an assertion of a registered
\* credential, or a frame in which a face is detected
Captured(run) ==
    IF run.kind = "fingerprint" THEN run.credentialId # 0
    ELSE run.frame # 0 /\ FaceDetected(run.frame)

\* The run met the collaborator its simulation lacks
MetMissing(run) ==
    \/ run.missing = Provider(run.kind)
    \/ run.missing = "storage" /\ Captured(run)

Returned(run) == run.pc = "idle" /\ run.result.returned

\* C17: a verifyFingerprint / verifyFace run for a user without a stored
\* record, whose capture succeeded and whose collaborators are present,
\* returns the not-enrolled result, and a run that failed on its capture or
\* on a missing collaborator never returns that result.
C17_UnenrolledToldApart ==
    Returned(verify) =>
        /\ (/\ Captured(verify)
            /\ ~MetMissing(verify)
            /\ ~HasRecord(Backing("verification"), verify.username))
              => (/\ ~verify.result.success
                  /\ ~verify.result.verified
                  /\ verify.result.error = "User not enrolled")
        /\ (~Captured(verify) \/ MetMissing(verify))
              => verify.result.error # "User not enrolled"

\* The step that ends a run: the simulation changed and is idle again
Ends(before, after) == after # before /\ after.pc = "idle"

\* The run returned the error of a null collaborator
FailedOnMissing(run) ==
    /\ run.result.returned /\ ~run.result.success
    /\ run.missing # "none"
    /\ run.result.error \in {NotInitialized(run.kind), NullCollaborator}

\* The run opened the camera: it notified 'Camera ready'
Opened(run) ==
    run.kind = "face" /\ \E i \in DOMAIN run.notes : run.notes[i] = Progress(2)

NoSideEffect(run) ==
    /\ run.notes = <<Note("onError", 0)>>
    /\ run.credentialId = 0
    /\ ~Opened(run)

\* C18: a run that fails on a null collaborator has notified nothing but
\* the error, registered no credential and opened no camera, and the step
\* that ends it writes nothing to the store.
C18_MissingFailsBeforeEffects ==
    [][/\ (Ends(enroll, enroll') /\ FailedOnMissing(enroll'))
            => (NoSideEffect(enroll') /\ UNCHANGED <<mem, ls>>)
       /\ (Ends(verify, verify') /\ FailedOnMissing(verify'))
            => (NoSideEffect(verify') /\ UNCHANGED <<mem, ls>>)
      ]_vars

\* C19: only the step in which enrollFingerprint / enrollFace returns
\* success:true writes to the store; every other step of an enrollment run,
\* the one that ends it in error included, leaves every stored record as it
\* was.
C19_FailedEnrollmentWritesNothing ==
    [][(enroll' # enroll /\ ~(enroll'.pc = "idle" /\ enroll'.result.success))
          => UNCHANGED <<mem, ls>>
      ]_vars

\* C20: every step of a verifyFingerprint / verifyFace run before the
\* compare step (capture, extract, retrieve, hash, and the catch block of a
\* run that fails in one of them) leaves the enrollment records and the
\* verification logs of every user unchanged.
C20_VerifyReadsUntilCompare ==
    [][(verify' # verify /\ verify.pc # "compare") => UNCHANGED <<mem, ls>>]_vars

\* A verification run has retrieved the stored record of its user and is
\* about to compare
C20_Witness ==
    /\ verify.pc = "compare"
    /\ HasRecord(Backing("verification"), verify.username)
    /\ verify.storedHash = StoredRecord(Backing("verification"), verify.username).hash

---------------------------------------------------------------------------
(* Users of one store *)

\* The operations that take a userId
PerUserOperations ==
    {"storeEnrollment", "updateEnrollment", "verifyBiometric", "deleteEnrollment",
     "getVerificationHistory"}

\* C21: a store, update, verify, delete or history operation for one userId
\* leaves the enrollment record and the verification log of every other
\* userId unchanged and makes no retrieval for another userId throw, ids
\* ending in `_log` or starting with `biometric-user-` included.
C21_UsersNeverContend ==
    [][(ret'.op \in PerUserOperations /\ UNCHANGED flowVars) =>
          \A other \in UserIds \ {ret'.userId} :
              /\ HasRecord(Store', other) = HasRecord(Store, other)
              /\ HasRecord(Store, other) =>
                    StoredRecord(Store', other) = StoredRecord(Store, other)
              /\ History(Store', other) = History(Store, other)
              /\ RetrieveEnrollment(variant, Store', other).r.threw =>
                    RetrieveEnrollment(variant, Store, other).r.threw
      ]_vars

\* A non-empty string of hexadecimal digits whose letters are all lowercase
\* or all uppercase
Hexadecimal(text) ==
    /\ Len(text) > 0
    /\ \/ \A i \in DOMAIN text : text[i] \in (48..57) \cup (97..102)
       \/ \A i \in DOMAIN text : text[i] \in (48..57) \cup (65..70)

\* C22: every stored enrollment record has a non-empty hexadecimal hash and
\* salt, each in one case, and a hash of 64 characters when its algorithm is
\* SHA-256.
C22_RecordsWellFormed ==
    \A userId \in UserIds :
        LET got == RetrieveEnrollment(variant, Store, userId).r
        IN (HasRecord(Store, userId) /\ ~got.threw /\ got.success) =>
              /\ Hexadecimal(got.data.hash)
              /\ Hexadecimal(got.data.salt)
              /\ got.data.algorithm = "SHA-256" => Len(got.data.hash) = 64

---------------------------------------------------------------------------
(* exportData and importData.  A JSON text is represented by whether        *)
(* JSON.parse accepts it and by the entries of the object it denotes.       *)

\* The keys exportData copies: every key of the Map, or the localStorage
\* keys with the record prefix or the log suffix
ExportedKeys(v, m) ==
    IF v = "memory" THEN DOMAIN m
    ELSE {k \in DOMAIN m : StartsWith(k, KeyPrefix) \/ EndsWith(k, LogSuffix)}

\* exportData(): JSON.stringify(data, null, 2)
ExportData(v, m) ==
    [parses |-> TRUE, entries |-> [k \in ExportedKeys(v, m) |-> m[k]]]

\* importData(jsonString): JSON.parse, then set every entry; a text that
\* does not parse is caught and nothing is set
ImportData(v, m, json) ==
    IF ~json.parses
    THEN Returns(m, [NoResult EXCEPT !.error = "SyntaxError"])
    ELSE Returns([k \in (DOMAIN m) \cup (DOMAIN json.entries) |->
                     IF k \in DOMAIN json.entries THEN json.entries[k] ELSE m[k]],
                 [NoResult EXCEPT !.success = TRUE])

\* A value that is no enrollment record: an empty array
CorruptValue(v) ==
    IF v = "memory" THEN [t |-> "arr", v |-> << >>] ELSE JsonOfArray(<< >>)

\* The text with the value of one key replaced by a corrupt one, and the
\* text with the value of one key cut short, which no longer parses
Corrupted(v, json, key) == [json EXCEPT !.entries[key] = CorruptValue(v)]
Truncated(json) == [json EXCEPT !.parses = FALSE]

\* The backup as exported, or damaged at one key
ImportInputs(v, json) ==
    {[given |-> json, damaged |-> Undefined]}
        \cup {[given |-> Corrupted(v, json, key), damaged |-> key] :
                 key \in DOMAIN json.entries}
        \cup {[given |-> Truncated(json), damaged |-> key] : key \in DOMAIN json.entries}

CallExportData ==
    /\ ret.op \in {"storeEnrollment", "verifyBiometric"}
    /\ ret' = Call("exportData", "direct", Undefined, Undefined,
                   ExportData(variant, Backing("direct")))
    /\ UNCHANGED <<variant, mem, ls, now>>
    /\ UNCHANGED flowVars

\* clearAll() by a caller that holds an exported text
CallClearAllExported ==
    /\ ret.op = "exportData"
    /\ LET out == ClearAll(variant, Backing("direct"))
       IN /\ Commit("direct", out.m)
          /\ ret' = Call("clearAll", "direct", Undefined, ret.r, out.r)
    /\ UNCHANGED <<variant, now>>
    /\ UNCHANGED flowVars

CallImportData ==
    /\ ret.op = "clearAll"
    /\ \E input \in ImportInputs(variant, ret.arg) :
          LET out == ImportData(variant, Backing("direct"), input.given)
          IN /\ Commit("direct", out.m)
             /\ ret' = Call("importData", "direct", Undefined,
                            [exported |-> ret.arg, given |-> input.given,
                             damaged |-> input.damaged],
                            out.r)
    /\ UNCHANGED <<variant, now>>
    /\ UNCHANGED flowVars

NextBackup ==
    \/ CallStoreEnrollment("direct")
    \/ CallVerifyBiometric("direct")
    \/ CallExportData
    \/ CallClearAllExported
    \/ CallImportData

SpecBackup == Init /\ [][NextBackup]_vars

\* Importing the exported text into the emptied store restores every entry
RoundTripRestores ==
    (ret.op = "importData" /\ ret.arg.damaged = Undefined) =>
        /\ ret.r.success
        /\ Store = ret.arg.exported.entries

\* C23: importData of the exported text into the emptied store restores
\* every exported record and log; importData of a text in which one record
\* is corrupt or unparseable succeeds, leaves that record out and restores
\* every other exported entry.
C23_ImportRestoresAndSkips ==
    /\ RoundTripRestores
    /\ (ret.op = "importData" /\ ret.arg.damaged # Undefined) =>
          /\ ret.r.success
          /\ ~Has(Store, ret.arg.damaged)
          /\ \A key \in (DOMAIN ret.arg.exported.entries) \ {ret.arg.damaged} :
                Has(Store, key) /\ Store[key] = ret.arg.exported.entries[key]

---------------------------------------------------------------------------
(* The constant template *)

\* C24: a verifyFingerprint(u) run started after an enrollment of u
\* completed, and captured with an assertion of any registered credential,
\* returns success:true with a verified value fixed by u's stored hash and
\* salt and the constant template, whichever credential was presented.
C24_CaptureNeverMatters ==
    (/\ VerifiedAfterEnrollment
     /\ verify.kind = "fingerprint"
     /\ verify.credentialId # 0)
        => /\ verify.result.success
           /\ verify.result.verified
                 <=> CompareHashes(HashWithSalt(StaticTemplate, verify.seen.salt),
                                   verify.seen.hash)

---------------------------------------------------------------------------
(* updateEnrollment on an existing record *)

\* The fields updateEnrollment never assigns
Identity(record) ==
    [userId |-> record.userId, enrollmentId |-> record.enrollmentId,
     biometricType |-> record.biometricType, algorithm |-> record.algorithm,
     enrollmentDate |-> record.metadata.enrollmentDate]

\* The update of an existing record succeeds, stamps the record, keeps its
\* identity and the user's log, and retrieveEnrollment returns what is stored
UpdateKeepsIdentity(userId) ==
    LET before == StoredRecord(Store, userId)
        after == StoredRecord(Store', userId)
        got == RetrieveEnrollment(variant, Store', userId).r
    IN /\ ~ret'.r.threw /\ ret'.r.success
       /\ HasRecord(Store', userId)
       /\ after.metadata.lastUpdated = now /\ after.timestamp = now
       /\ Identity(after) = Identity(before)
       /\ History(Store', userId) = History(Store, userId)
       /\ ~got.threw /\ got.success
       /\ got.data.hash = after.hash /\ got.data.salt = after.salt
       /\ got.data.metadata = after.metadata

\* C25: updateEnrollment(userId, updates) on an existing record sets hash,
\* salt and metadata.confidence to the values in updates that are truthy (a
\* non-empty string, a non-zero number) and leaves each of the three
\* unchanged otherwise, sets metadata.lastUpdated and timestamp, leaves
\* userId, enrollmentId, biometricType, algorithm, metadata.enrollmentDate
\* and the user's verification log unchanged, and retrieveEnrollment
\* afterwards returns the merged record.
C25_UpdateMergesTruthy ==
    [][(IsCall("updateEnrollment") /\ HasRecord(Store, ret'.userId)) =>
          LET userId == ret'.userId
              updates == ret'.arg
              before == StoredRecord(Store, userId)
              after == StoredRecord(Store', userId)
          IN /\ UpdateKeepsIdentity(userId)
             /\ after.hash = IF Truthy(updates.hash) THEN updates.hash ELSE before.hash
             /\ after.salt = IF Truthy(updates.salt) THEN updates.salt ELSE before.salt
             /\ after.metadata.confidence =
                   IF updates.confidence > 0 THEN updates.confidence
                   ELSE before.metadata.confidence
      ]_vars

\* An update that gave a hash and no salt replaced the hash and kept the
\* salt of a record whose user has a verification log
C25_Witness ==
    /\ ret.op = "updateEnrollment" /\ ret.r.success /\ ret.arg = UpdateHash
    /\ HasRecord(Store, ret.userId)
    /\ StoredRecord(Store, ret.userId).hash = HashCD
    /\ StoredRecord(Store, ret.userId).salt = Salt01
    /\ History(Store, ret.userId) # NoHistory

\* C25 as stated: every value given in updates is assigned, an empty string
\* included
C25_UpdateSetsGiven ==
    [][(IsCall("updateEnrollment") /\ HasRecord(Store, ret'.userId)) =>
          LET userId == ret'.userId
              updates == ret'.arg
              before == StoredRecord(Store, userId)
              after == StoredRecord(Store', userId)
          IN /\ UpdateKeepsIdentity(userId)
             /\ after.hash = IF updates.hash # Undefined THEN updates.hash ELSE before.hash
             /\ after.salt = IF updates.salt # Undefined THEN updates.salt ELSE before.salt
      ]_vars

---------------------------------------------------------------------------
(* The loop of compareHashes, one iteration per step.  `ret` holds the two  *)
(* arguments and the frame of the call: the position in the function, the   *)
(* loop index i, the accumulator and the number of iterations done.         *)

Frame(pc, i, result, steps, value) ==
    [pc |-> pc, i |-> i, result |-> result, steps |-> steps, value |-> value]

InitLoop ==
    /\ Untouched
    /\ \E hash1 \in Strings \cup {Undefined}, hash2 \in Strings \cup {Undefined} :
          ret = Call("compareHashes", "direct", hash1, hash2,
                     Frame("entry", 0, 0, 0, FALSE))

\* if (!hash1 || !hash2) return false; if (hash1.length !== hash2.length)
\* return false; let result = 0; i = 0
LoopEnter ==
    /\ ret.r.pc = "entry"
    /\ ret' = [ret EXCEPT !.r =
                 IF ~Truthy(ret.userId) \/ ~Truthy(ret.arg)
                 THEN Frame("returned", 0, 0, 0, FALSE)
                 ELSE IF Len(ret.userId) # Len(ret.arg)
                 THEN Frame("returned", 0, 0, 0, FALSE)
                 ELSE Frame("loop", 0, 0, 0, FALSE)]
    /\ UNCHANGED <<variant, mem, ls, now>>
    /\ UNCHANGED flowVars

\* A loop body that leaves the function at the first mismatch
LoopStepLeaving ==
    /\ ret.r.pc = "loop"
    /\ ret.r.i < Len(ret.userId)
    /\ LET diff == BitXor(ret.userId[ret.r.i + 1], ret.arg[ret.r.i + 1])
       IN ret' = [ret EXCEPT !.r =
                     IF diff # 0
                     THEN Frame("returned", ret.r.i, diff, ret.r.steps + 1, FALSE)
                     ELSE Frame("loop", ret.r.i + 1, 0, ret.r.steps + 1, FALSE)]
    /\ UNCHANGED <<variant, mem, ls, now>>
    /\ UNCHANGED flowVars

\* i < hash1.length: result |= hash1.charCodeAt(i) ^ hash2.charCodeAt(i); i++
LoopStep ==
    /\ ret.r.pc = "loop"
    /\ ret.r.i < Len(ret.userId)
    /\ LET diff == BitXor(ret.userId[ret.r.i + 1], ret.arg[ret.r.i + 1])
       IN ret' = [ret EXCEPT !.r = Frame("loop", ret.r.i + 1, BitOr(ret.r.result, diff),
                                         ret.r.steps + 1, FALSE)]
    /\ UNCHANGED <<variant, mem, ls, now>>
    /\ UNCHANGED flowVars

\* i = hash1.length: return result === 0
LoopReturn ==
    /\ ret.r.pc = "loop"
    /\ ret.r.i = Len(ret.userId)
    /\ ret' = [ret EXCEPT !.r = Frame("returned", ret.r.i, ret.r.result, ret.r.steps,
                                      ret.r.result = 0)]
    /\ UNCHANGED <<variant, mem, ls, now>>
    /\ UNCHANGED flowVars

NextLoop == LoopEnter \/ LoopStep \/ LoopReturn

SpecLoop == InitLoop /\ [][NextLoop]_vars

\* C26: compareHashes on two non-empty inputs of equal length n returns
\* after n iterations of its loop, wherever the inputs first differ; it
\* returns without entering the loop only when an input is empty or
\* undefined or the lengths differ; the value returned is that of
\* CompareHashes.
C26_LoopVisitsEveryPosition ==
    ret.r.pc = "returned" =>
        /\ ret.r.steps =
              IF Truthy(ret.userId) /\ Truthy(ret.arg) /\ Len(ret.userId) = Len(ret.arg)
              THEN Len(ret.userId) ELSE 0
        /\ ret.r.value = CompareHashes(ret.userId, ret.arg)

\* Two strings of MaxLen units that differ in their first unit were compared
\* in MaxLen iterations
C26_Witness ==
    /\ ret.r.pc = "returned"
    /\ Truthy(ret.userId) /\ Truthy(ret.arg)
    /\ Len(ret.userId) = MaxLen /\ Len(ret.arg) = MaxLen
    /\ ret.userId[1] # ret.arg[1]
    /\ ret.r.steps = MaxLen
    /\ ~ret.r.value

---------------------------------------------------------------------------
(* The notifications of one run *)

IsStepChange(note) == note.event = "onStepChange"
IsProgress(note) == note.event = "onProgress"
IsTerminal(note) == note.event \in {"onComplete", "onError"}

\* Step indices 0, 1, 2, ... in order, progress values that never decrease,
\* no terminal notification before the run returns and exactly one, the
\* last notification, once it has; progress 1.0 only in a run that succeeds
LinearRun(run) ==
    LET steps == SelectSeq(run.notes, IsStepChange)
        progress == SelectSeq(run.notes, IsProgress)
        terminal == SelectSeq(run.notes, IsTerminal)
    IN /\ Len(steps) <= 5
       /\ \A i \in DOMAIN steps : steps[i].value = i - 1
       /\ \A i \in DOMAIN progress, j \in DOMAIN progress :
             i < j => progress[i].value <= progress[j].value
       /\ run.pc # "idle" => Len(terminal) = 0
       /\ Returned(run) =>
             /\ Len(terminal) = 1
             /\ IsTerminal(run.notes[Len(run.notes)])
             /\ terminal[1].event = "onComplete" <=> run.result.success
             /\ (\E i \in DOMAIN progress : progress[i].value = 10) => run.result.success

\* C27: in every enrollment and verification run the step-change
\* notifications are a prefix of the indices 0..4 in order, each once, the
\* progress values never decrease and reach 1.0 only on success, and the
\* run ends with exactly one terminal notification, onComplete or onError.
C27_RunsAreLinear == LinearRun(enroll) /\ LinearRun(verify)

---------------------------------------------------------------------------
(* SaltGenerator.validate *)

DefaultLength == 32

\* [0-9a-f] under the i flag
HexDigits == (48..57) \cup (97..102) \cup (65..70)

\* The line terminators, which `.` does not match
LineTerminators == {10, 13, 8232, 8233}

\* /^(.)\1+$/: one character, no line terminator, two or more times
RepeatedPattern(salt) ==
    /\ Len(salt) >= 2
    /\ salt[1] \notin LineTerminators
    /\ \A i \in DOMAIN salt : salt[i] = salt[1]

\* validate with the hexadecimal test written without the i flag
ValidateLowerCase(salt) ==
    IF ~Truthy(salt)
    THEN [valid |-> FALSE, errors |-> <<"Salt is empty">>, warnings |-> 0,
          strength |-> "unknown"]
    ELSE LET format == IF \A i \in DOMAIN salt : salt[i] \in (48..57) \cup (97..102)
                       THEN << >> ELSE <<"Salt must be hexadecimal">>
             pattern == IF RepeatedPattern(salt) THEN <<"Salt contains repeated pattern">>
                        ELSE << >>
             zeros == IF \A i \in DOMAIN salt : salt[i] = 48 THEN <<"Salt is all zeros">>
                      ELSE << >>
             errors == format \o pattern \o zeros
         IN [valid |-> errors = << >>,
             errors |-> errors,
             warnings |-> IF Len(salt) < 2 * MinLength THEN 1 ELSE 0,
             strength |-> IF Len(salt) < 2 * MinLength THEN "weak"
                          ELSE IF Len(salt) >= 2 * DefaultLength THEN "strong"
                          ELSE "moderate"]

\* validate(salt); byteLength is salt.length / 2
Validate(salt) ==
    IF ~Truthy(salt)
    THEN [valid |-> FALSE, errors |-> <<"Salt is empty">>, warnings |-> 0,
          strength |-> "unknown"]
    ELSE LET format == IF \A i \in DOMAIN salt : salt[i] \in HexDigits
                       THEN << >> ELSE <<"Salt must be hexadecimal">>
             pattern == IF RepeatedPattern(salt) THEN <<"Salt contains repeated pattern">>
                        ELSE << >>
             zeros == IF \A i \in DOMAIN salt : salt[i] = 48 THEN <<"Salt is all zeros">>
                      ELSE << >>
             errors == format \o pattern \o zeros
         IN [valid |-> errors = << >>,
             errors |-> errors,
             warnings |-> IF Len(salt) < 2 * MinLength THEN 1 ELSE 0,
             strength |-> IF Len(salt) < 2 * MinLength THEN "weak"
                          ELSE IF Len(salt) >= 2 * DefaultLength THEN "strong"
                          ELSE "moderate"]

\* "0", "a", "F", "g" and a line feed
SaltUnits == {48, 97, 70, 103, 10}

\* A salt of `length` characters that repeats the pair `first`, `second`
Alternating(length, first, second) ==
    [i \in 1..length |-> IF i % 2 = 1 THEN first ELSE second]

\* Every text of up to MaxLen units, and texts of 15.5, 16, 31.5 and 32 bytes
SaltTexts ==
    UNION {[1..n -> SaltUnits] : n \in 0..MaxLen}
        \cup {Alternating(length, first, second) :
                 length \in {2 * MinLength - 1, 2 * MinLength,
                             2 * DefaultLength - 1, 2 * DefaultLength},
                 first \in {48, 97}, second \in {48, 70, 103}}
        \cup {Undefined}

InitValidate ==
    /\ Untouched
    /\ \E salt \in SaltTexts :
          ret = Call("pending", "direct", Undefined, salt,
                     [valid |-> FALSE, errors |-> << >>, warnings |-> 0,
                      strength |-> "unknown"])

CallValidate ==
    /\ ret.op = "pending"
    /\ ret' = Call("validate", "direct", Undefined, ret.arg, Validate(ret.arg))
    /\ UNCHANGED <<variant, mem, ls, now>>
    /\ UNCHANGED flowVars

NextValidate == CallValidate

SpecValidate == InitValidate /\ [][NextValidate]_vars

\* C28: validate(salt) returns valid:false exactly for the salts that are
\* empty, contain a character that is no hexadecimal digit, consist of zeros
\* only or consist of one character repeated, and valid:true for every other
\* hexadecimal salt, whatever its length; a salt shorter than 16 bytes gets
\* one warning and strength 'weak' and no error for its length.
C28_ValidateRejectsWeakSalts ==
    ret.op = "validate" =>
        LET salt == ret.arg
            empty == salt = Undefined \/ salt = Empty
            nonHex == \E i \in DOMAIN salt : salt[i] \notin HexDigits
            zeros == \A i \in DOMAIN salt : salt[i] = 48
            repeated == Len(salt) >= 2 /\ Cardinality({salt[i] : i \in DOMAIN salt}) = 1
        IN /\ ret.r.valid <=> ~(empty \/ nonHex \/ zeros \/ repeated)
           /\ (~empty /\ Len(salt) < 2 * MinLength) =>
                 (ret.r.strength = "weak" /\ ret.r.warnings = 1)
           /\ (~empty /\ Len(salt) >= 2 * MinLength) =>
                 (ret.r.strength # "weak" /\ ret.r.warnings = 0)

\* A salt of three characters in both letter cases was found valid and weak
C28_Witness ==
    /\ ret.op = "validate"
    /\ ret.arg = <<97, 70, 48>>
    /\ ret.r.valid /\ ret.r.strength = "weak" /\ ret.r.warnings = 1

---------------------------------------------------------------------------
(* The verdict of a run and the attempt it logs *)

---------------------------------------------------------------------------
(* The camera of a face run *)

\* C30: whenever enrollFace or verifyFace has returned, with success or with
\* an error raised at any step after the camera was initialised, the camera
\* of its simulation is released: stopCamera has run, isCapturing is false
\* and the stream is null.
C30_CameraReleasedOnExit ==
    /\ (Returned(enroll) /\ enroll.kind = "face") => ~camera["enrollment"]
    /\ (Returned(verify) /\ verify.kind = "face") => ~camera["verification"]

\* A face enrollment that opened the camera failed later on a null
\* collaborator, and has returned with the camera released
C30_Witness ==
    /\ Returned(enroll) /\ Opened(enroll)
    /\ ~enroll.result.success
    /\ enroll.result.error = NullCollaborator
    /\ ~camera["enrollment"]

====
